---- MODULE Spec2Model ----
(***************************************************************************)
(* Model of txt2pdf.py: convert_to_pdf reads a markdown-like text file,    *)
(* parse_markdown turns its lines into a list of flowables (calling        *)
(* process_inline and parse_table), and the document is built.             *)
(*                                                                         *)
(* A Python string is a sequence of one-character strings.  Line indices   *)
(* (the variable i) are 0-based as in the source; lines[i+1] is the        *)
(* source's lines[i].                                                      *)
(***************************************************************************)
EXTENDS Integers, Sequences, FiniteSets, TLC

VARIABLES
    pc,            \* position in convert_to_pdf / parse_markdown
    input_exists,  \* whether the input path names a file
    output_exists, \* whether the output path names a file
    disk_text,     \* the content of the input file
    lines,         \* parse_markdown: lines
    i,             \* parse_markdown: i
    flowables,     \* parse_markdown: flowables
    trace,         \* history: per emitted block, its branch, source lines, level
    exception,     \* the exception that left convert_to_pdf, or "none"
    stdout,        \* what print() wrote
    text,          \* process_inline: its argument
    result,        \* process_inline(text)
    result2,       \* process_inline(process_inline(text))
    matches,       \* the matches re.sub handed to bold_repl
    ipc            \* position of the process_inline harness

vars == <<pc, input_exists, output_exists, disk_text, lines, i, flowables,
          trace, exception, stdout, text, result, result2, matches, ipc>>

convVars == <<pc, input_exists, output_exists, disk_text, lines, i, flowables,
              trace, exception, stdout>>

inlineVars == <<text, result, result2, matches, ipc>>

-----------------------------------------------------------------------------
(* Bounds *)

MaxLines == 3

MaxTextLen == 6

-----------------------------------------------------------------------------
(* Strings *)

Min(S) == CHOOSE x \in S : \A y \in S : x <= y

Max(S) == CHOOSE x \in S : \A y \in S : x >= y

Range(s) == {s[k] : k \in 1..Len(s)}

Whitespace == {" ", "\t", "\n", "\r"}

Digits == {"0", "1", "2", "3", "4", "5", "6", "7", "8", "9"}

IsSpace(c) == c \in Whitespace

\* str.strip()
strip(s) ==
    LET idx == {k \in 1..Len(s) : ~IsSpace(s[k])}
    IN  IF idx = {} THEN <<>> ELSE SubSeq(s, Min(idx), Max(idx))

\* what a greedy \s+ followed by (.*) leaves for the group
after_spaces(s) ==
    LET idx == {k \in 1..Len(s) : ~IsSpace(s[k])}
    IN  IF idx = {} THEN <<>> ELSE SubSeq(s, Min(idx), Len(s))

\* str.split(sep) / re.split of a one-character separator
RECURSIVE split(_, _)
split(s, sep) ==
    LET idx == {k \in 1..Len(s) : s[k] = sep}
    IN  IF idx = {} THEN <<s>>
        ELSE <<SubSeq(s, 1, Min(idx) - 1)>>
                 \o split(SubSeq(s, Min(idx) + 1, Len(s)), sep)

\* the slice xs[1:-1]
slice_1_m1(xs) == IF Len(xs) <= 2 THEN <<>> ELSE SubSeq(xs, 2, Len(xs) - 1)

\* the slice xs[2:]
slice_2(xs) == IF Len(xs) <= 2 THEN <<>> ELSE SubSeq(xs, 3, Len(xs))

RECURSIVE join(_, _)
join(xs, sep) ==
    IF xs = <<>> THEN <<>>
    ELSE IF Len(xs) = 1 THEN xs[1]
    ELSE xs[1] \o <<sep>> \o join(Tail(xs), sep)

-----------------------------------------------------------------------------
(* Regular expressions of parse_markdown *)

MaxTitleLevel == 6

NoMatch == [ok |-> FALSE, g1 |-> <<>>, g2 |-> <<>>]

\* re.match(r'^(#{1,6})\s+(.*)', line): group 1 is the longest prefix of
\* 1..6 '#' that is followed by white space
title_match_level7(line) ==
    LET ks == {k \in 1..(MaxTitleLevel + 1) :
                  /\ k + 1 <= Len(line)
                  /\ \A j \in 1..k : line[j] = "#"
                  /\ IsSpace(line[k + 1])}
    IN  IF ks = {} THEN NoMatch
        ELSE [ok |-> TRUE,
              g1 |-> SubSeq(line, 1, Max(ks)),
              g2 |-> after_spaces(SubSeq(line, Max(ks) + 1, Len(line)))]

title_match(line) ==
    LET ks == {k \in 1..MaxTitleLevel :
                  /\ k + 1 <= Len(line)
                  /\ \A j \in 1..k : line[j] = "#"
                  /\ IsSpace(line[k + 1])}
    IN  IF ks = {} THEN NoMatch
        ELSE [ok |-> TRUE,
              g1 |-> SubSeq(line, 1, Max(ks)),
              g2 |-> after_spaces(SubSeq(line, Max(ks) + 1, Len(line)))]

\* the end of the marker (\*|\-|\d+\.) at the start of line, or 0
marker_end(line) ==
    IF line = <<>> THEN 0
    ELSE IF line[1] \in {"*", "-"} THEN 1
    ELSE LET nd == {k \in 1..Len(line) : \A j \in 1..k : line[j] \in Digits}
         IN  IF nd # {} /\ Max(nd) < Len(line) /\ line[Max(nd) + 1] = "."
             THEN Max(nd) + 1 ELSE 0

\* re.match(r'^(\*|\-|\d+\.)\s+(.*)', line)
list_match(line) ==
    LET e == marker_end(line)
    IN  IF e > 0 /\ e < Len(line) /\ IsSpace(line[e + 1])
        THEN [ok |-> TRUE,
              g1 |-> SubSeq(line, 1, e),
              g2 |-> after_spaces(SubSeq(line, e + 1, Len(line)))]
        ELSE NoMatch

HasPipe(line) == "|" \in Range(line)

-----------------------------------------------------------------------------
(* process_inline *)

BoldMarkers == {"*", "_"}

IsMarkerAt(s, p, c) == p >= 1 /\ p + 1 <= Len(s) /\ s[p] = c /\ s[p + 1] = c

\* (.*) instead of (.*?): the closing marker is the last one
bold_match_greedy(s, p) ==
    IF p + 1 <= Len(s) /\ s[p] \in BoldMarkers /\ s[p + 1] = s[p]
    THEN LET qs == {q \in (p + 2)..(Len(s) - 1) : IsMarkerAt(s, q, s[p])}
         IN  IF qs = {} THEN 0 ELSE Max(qs)
    ELSE 0

\* (\*\*|__) instead of \1: the closing marker may be of the other kind
bold_match_anykind(s, p) ==
    IF p + 1 <= Len(s) /\ s[p] \in BoldMarkers /\ s[p + 1] = s[p]
    THEN LET qs == {q \in (p + 2)..(Len(s) - 1) :
                       \E c \in BoldMarkers : IsMarkerAt(s, q, c)}
         IN  IF qs = {} THEN 0 ELSE Min(qs)
    ELSE 0

\* bold_pattern r'(\*\*|__)(.*?)\1' tried at position p (1-based): the
\* position of the closing marker, or 0 when there is no match at p
bold_match(s, p) ==
    IF p + 1 <= Len(s) /\ s[p] \in BoldMarkers /\ s[p + 1] = s[p]
    THEN LET qs == {q \in (p + 2)..(Len(s) - 1) : IsMarkerAt(s, q, s[p])}
         IN  IF qs = {} THEN 0 ELSE Min(qs)
    ELSE 0

\* bold_repl(match)
bold_repl(s, p, q) ==
    <<"<", "b", ">">> \o SubSeq(s, p + 2, q - 1) \o <<"<", "/", "b", ">">>

\* re.sub(bold_pattern, bold_repl, text) from position p on
RECURSIVE re_sub(_, _)
re_sub(s, p) ==
    IF p > Len(s) THEN <<>>
    ELSE LET q == bold_match(s, p)
         IN  IF q > 0 THEN bold_repl(s, p, q) \o re_sub(s, q + 2)
             ELSE <<s[p]>> \o re_sub(s, p + 1)

\* the matches re.sub hands to bold_repl, in order
RECURSIVE bold_matches(_, _)
bold_matches(s, p) ==
    IF p > Len(s) THEN <<>>
    ELSE LET q == bold_match(s, p)
         IN  IF q > 0 THEN <<[start |-> p, close |-> q]>> \o bold_matches(s, q + 2)
             ELSE bold_matches(s, p + 1)

\* the variant with italics: after the bold pass, (\*|_)(.*?)\1 becomes <i>..</i>
RECURSIVE italic_sub(_, _)
italic_sub(s, p) ==
    IF p > Len(s) THEN <<>>
    ELSE LET qs == IF s[p] \in BoldMarkers
                   THEN {q \in (p + 1)..Len(s) : s[q] = s[p]} ELSE {}
         IN  IF qs # {}
             THEN <<"<", "i", ">">> \o SubSeq(s, p + 1, Min(qs) - 1)
                      \o <<"<", "/", "i", ">">> \o italic_sub(s, Min(qs) + 1)
             ELSE <<s[p]>> \o italic_sub(s, p + 1)

process_inline_italic(s) == italic_sub(re_sub(s, 1), 1)

process_inline(s) == re_sub(s, 1)

-----------------------------------------------------------------------------
(* parse_table *)

None == [type |-> "None"]

\* [cell.strip() for cell in re.split(r'\|', line)[1:-1]]
row_cells(line) ==
    LET fs == slice_1_m1(split(line, "|"))
    IN  [k \in 1..Len(fs) |-> strip(fs[k])]

RECURSIVE table_rows(_, _)
table_rows(ls, headers) ==
    IF ls = <<>> THEN <<>>
    ELSE LET cells == row_cells(ls[1])
         IN  (IF Len(cells) = Len(headers) THEN <<cells>> ELSE <<>>)
                 \o table_rows(Tail(ls), headers)

\* table_lines[1:] instead of table_lines[2:]: the separator is not skipped
parse_table_keep_separator(table_lines) ==
    IF Len(table_lines) < 2 THEN None
    ELSE LET headers == row_cells(table_lines[1])
             data == <<headers>> \o table_rows(Tail(table_lines), headers)
         IN  IF data = <<>> THEN None ELSE [type |-> "Table", data |-> data]

parse_table(table_lines) ==
    IF Len(table_lines) < 2 THEN None
    ELSE LET headers == row_cells(table_lines[1])
             data == <<headers>> \o table_rows(slice_2(table_lines), headers)
         IN  IF data = <<>> THEN None ELSE [type |-> "Table", data |-> data]

-----------------------------------------------------------------------------
(* Inputs *)

SeqsOfLen(S, lo, hi) == UNION {[1..n -> S] : n \in lo..hi}

\* lines a document is made of: blank, headings of level 1, 6 and 7 hashes,
\* a heading with a pipe, table lines with two, one and no cells, list lines
\* of both marker kinds (one with a pipe), and plain text with bold markers
SampleLines ==
    { <<>>,
      <<"#", " ", "a">>,
      <<"#", "#", "#", "#", "#", "#", " ", "a">>,
      <<"#", "#", "#", "#", "#", "#", "#", " ", "a">>,
      <<"#", " ", "a", "|", "b">>,
      <<"#", "#", "#", "#", "#", "#", "#", "|">>,
      <<"|", " ", "A", " ", "|", "B", "|">>,
      <<"|", "-", "|", "-", "|">>,
      <<"|", "x", "|">>,
      <<"A", " ", "|", " ", "B">>,
      <<" ", "-", " ", "a">>,
      <<"1", ".", " ", "b">>,
      <<"*", " ", "c", "|", "d">>,
      <<"*", "*", "p", "*", "*">> }

\* the table '| A | B |', '|---|---|', '| 1 | 2 |', '| x |'
TableExample ==
    << <<"|", " ", "A", " ", "|", " ", "B", " ", "|">>,
       <<"|", "-", "-", "-", "|", "-", "-", "-", "|">>,
       <<"|", " ", "1", " ", "|", " ", "2", " ", "|">>,
       <<"|", " ", "x", " ", "|">> >>

Documents == SeqsOfLen(SampleLines, 1, MaxLines) \cup {TableExample}

InlineAlphabet == {"*", "_", "a"}

\* '**hi** and *there*'
BoldItalicExample ==
    <<"*", "*", "h", "i", "*", "*", " ", "a", "n", "d", " ",
      "*", "t", "h", "e", "r", "e", "*">>

\* 'this *is not closed'
UnclosedExample ==
    <<"t", "h", "i", "s", " ", "*", "i", "s", " ", "n", "o", "t", " ",
      "c", "l", "o", "s", "e", "d">>

InlineTexts ==
    SeqsOfLen(InlineAlphabet, 0, MaxTextLen)
        \cup {BoldItalicExample, UnclosedExample}

-----------------------------------------------------------------------------
(* convert_to_pdf and parse_markdown *)

Spacer == [type |-> "Spacer", width |-> 1, height |-> 12]

Paragraph(t, style) == [type |-> "Paragraph", text |-> t, style |-> style]

ListFlowable(items, bulletType, start) ==
    [type |-> "ListFlowable", items |-> items,
     bulletType |-> bulletType, start |-> start]

Block(kind, first, last, level) ==
    [kind |-> kind, first |-> first, last |-> last, level |-> level]

\* line = lines[i].strip()
line == strip(lines[i + 1])

InLoop == pc = "loop" /\ i < Len(lines)

\* while i < len(lines) and '|' in lines[i]: ... i += 1
RECURSIVE table_run_end(_, _)
table_run_end(ls, j) ==
    IF j < Len(ls) /\ HasPipe(ls[j + 1]) THEN table_run_end(ls, j + 1) ELSE j

\* while i < len(lines): ... if lm: ... i += 1 else: break
RECURSIVE list_run_end(_, _)
list_run_end(ls, j) ==
    IF j < Len(ls) /\ list_match(strip(ls[j + 1])).ok
    THEN list_run_end(ls, j + 1) ELSE j

\* the list's type taken from the last line of the run instead of the first
list_marker_of_last(ls, first, last) == list_match(strip(ls[last])).g1

\* list_match.group(1): the marker of the line the run starts at
list_marker(ls, first, last) == list_match(strip(ls[first])).g1

Init ==
    /\ pc = "open"
    /\ input_exists \in BOOLEAN
    /\ disk_text \in IF input_exists
                     THEN {join(d, "\n") : d \in Documents} ELSE {<<>>}
    /\ output_exists = FALSE
    /\ lines = <<>>
    /\ i = 0
    /\ flowables = <<>>
    /\ trace = <<>>
    /\ exception = "none"
    /\ stdout = <<>>
    /\ text = <<>>
    /\ result = <<>>
    /\ result2 = <<>>
    /\ matches = <<>>
    /\ ipc = "idle"

\* open(input_file) fails: the exception leaves convert_to_pdf
OpenFails ==
    /\ pc = "open"
    /\ ~input_exists
    /\ exception' = "FileNotFoundError"
    /\ pc' = "raised"
    /\ UNCHANGED <<input_exists, output_exists, disk_text, lines, i,
                   flowables, trace, stdout>>
    /\ UNCHANGED inlineVars

\* f.read(); parse_markdown starts: lines = input_text.split('\n'); i = 0
ReadInput ==
    /\ pc = "open"
    /\ input_exists
    /\ lines' = split(disk_text, "\n")
    /\ i' = 0
    /\ flowables' = <<>>
    /\ trace' = <<>>
    /\ pc' = "loop"
    /\ UNCHANGED <<input_exists, output_exists, disk_text, exception, stdout>>
    /\ UNCHANGED inlineVars

SkipEmpty ==
    /\ InLoop
    /\ line = <<>>
    /\ i' = i + 1
    /\ UNCHANGED <<pc, input_exists, output_exists, disk_text, lines,
                   flowables, trace, exception, stdout>>
    /\ UNCHANGED inlineVars

HandleTitle ==
    /\ InLoop
    /\ line # <<>>
    /\ title_match(line).ok
    /\ LET level == Len(title_match(line).g1)
           style == IF level = 1 THEN "TitleStyle" ELSE "SubtitleStyle"
       IN  /\ flowables' = flowables \o
                  <<Paragraph(process_inline(title_match(line).g2), style), Spacer>>
           /\ trace' = Append(trace, Block("title", i + 1, i + 1, level))
    /\ i' = i + 1
    /\ UNCHANGED <<pc, input_exists, output_exists, disk_text, lines,
                   exception, stdout>>
    /\ UNCHANGED inlineVars

HandleTable ==
    /\ InLoop
    /\ line # <<>>
    /\ ~title_match(line).ok
    /\ HasPipe(line)
    /\ LET j == table_run_end(lines, i)
           table == parse_table(SubSeq(lines, i + 1, j))
       IN  /\ i' = j
           /\ IF table # None
              THEN /\ flowables' = flowables \o <<table, Spacer>>
                   /\ trace' = Append(trace, Block("table", i + 1, j, 0))
              ELSE UNCHANGED <<flowables, trace>>
    /\ UNCHANGED <<pc, input_exists, output_exists, disk_text, lines,
                   exception, stdout>>
    /\ UNCHANGED inlineVars

HandleList ==
    /\ InLoop
    /\ line # <<>>
    /\ ~title_match(line).ok
    /\ ~HasPipe(line)
    /\ list_match(line).ok
    /\ LET j == list_run_end(lines, i)
           marker == list_marker(lines, i + 1, j)
           items == [k \in 1..(j - i) |->
                        Paragraph(process_inline(list_match(strip(lines[i + k])).g2),
                                  "Normal")]
       IN  /\ i' = j
           /\ flowables' = flowables \o
                  <<ListFlowable(items,
                                 IF marker \in {<<"*">>, <<"-">>} THEN "bullet" ELSE "1",
                                 IF marker[Len(marker)] = "." THEN "1" ELSE "None"),
                    Spacer>>
           /\ trace' = Append(trace, Block("list", i + 1, j, 0))
    /\ UNCHANGED <<pc, input_exists, output_exists, disk_text, lines,
                   exception, stdout>>
    /\ UNCHANGED inlineVars

\* the paragraph branch without its i += 1
HandleParagraphNoAdvance ==
    /\ InLoop
    /\ line # <<>>
    /\ ~title_match(line).ok
    /\ ~HasPipe(line)
    /\ ~list_match(line).ok
    /\ flowables' = flowables \o <<Paragraph(process_inline(line), "Normal"), Spacer>>
    /\ trace' = Append(trace, Block("paragraph", i + 1, i + 1, 0))
    /\ UNCHANGED <<pc, input_exists, output_exists, disk_text, lines, i,
                   exception, stdout>>
    /\ UNCHANGED inlineVars

HandleParagraph ==
    /\ InLoop
    /\ line # <<>>
    /\ ~title_match(line).ok
    /\ ~HasPipe(line)
    /\ ~list_match(line).ok
    /\ flowables' = flowables \o <<Paragraph(process_inline(line), "Normal"), Spacer>>
    /\ trace' = Append(trace, Block("paragraph", i + 1, i + 1, 0))
    /\ i' = i + 1
    /\ UNCHANGED <<pc, input_exists, output_exists, disk_text, lines,
                   exception, stdout>>
    /\ UNCHANGED inlineVars

\* the while condition fails: return flowables
ReturnFlowables ==
    /\ pc = "loop"
    /\ ~(i < Len(lines))
    /\ pc' = "build"
    /\ UNCHANGED <<input_exists, output_exists, disk_text, lines, i,
                   flowables, trace, exception, stdout>>
    /\ UNCHANGED inlineVars

\* SimpleDocTemplate(output_file, ...); doc.build(flowables); print(...)
BuildDoc ==
    /\ pc = "build"
    /\ output_exists' = TRUE
    /\ stdout' = Append(stdout, "PDF generated successfully")
    /\ pc' = "done"
    /\ UNCHANGED <<input_exists, disk_text, lines, i, flowables, trace, exception>>
    /\ UNCHANGED inlineVars

Next ==
    \/ OpenFails
    \/ ReadInput
    \/ SkipEmpty
    \/ HandleTitle
    \/ HandleTable
    \/ HandleList
    \/ HandleParagraph
    \/ ReturnFlowables
    \/ BuildDoc

Spec == Init /\ [][Next]_vars

-----------------------------------------------------------------------------
(* process_inline on its own: applied to a text, and to its own result *)

InitInline ==
    /\ pc = "idle"
    /\ input_exists = FALSE
    /\ output_exists = FALSE
    /\ disk_text = <<>>
    /\ lines = <<>>
    /\ i = 0
    /\ flowables = <<>>
    /\ trace = <<>>
    /\ exception = "none"
    /\ stdout = <<>>
    /\ text \in InlineTexts
    /\ result = <<>>
    /\ result2 = <<>>
    /\ matches = <<>>
    /\ ipc = "start"

ApplyInline ==
    /\ ipc = "start"
    /\ result' = process_inline(text)
    /\ matches' = bold_matches(text, 1)
    /\ ipc' = "once"
    /\ UNCHANGED <<text, result2>>
    /\ UNCHANGED convVars

ApplyAgain ==
    /\ ipc = "once"
    /\ result2' = process_inline(result)
    /\ ipc' = "twice"
    /\ UNCHANGED <<text, result, matches>>
    /\ UNCHANGED convVars

NextInline ==
    \/ ApplyInline
    \/ ApplyAgain

SpecInline == InitInline /\ [][NextInline]_vars

-----------------------------------------------------------------------------
(* Properties *)

TableBlocks == {n \in 1..Len(trace) : trace[n].kind = "table"}

ListBlocks == {n \in 1..Len(trace) : trace[n].kind = "list"}

TitleBlocks == {n \in 1..Len(trace) : trace[n].kind = "title"}

\* the flowable emitted for block n (each block is followed by a Spacer)
NodeOf(n) == flowables[2 * n - 1]

\* the r-th smallest element of a set of numbers
NthOf(S, r) == CHOOSE k \in S : Cardinality({x \in S : x < k}) = r - 1

Parsed == pc \in {"build", "done"}

\* C1: every table emitted comes from a maximal run of at least two lines
\* containing '|' that starts where the main loop stood; its first row is the
\* header, and its data rows are, in order, the cells of exactly those run
\* lines after the first two whose cell count equals the header's: the
\* second line is never a data row, rows of another width are dropped.
C1_TableDataRows ==
    \A n \in TableBlocks :
        LET b == trace[n]
            hdr == row_cells(lines[b.first])
            good == {k \in (b.first + 2)..b.last :
                        Len(row_cells(lines[k])) = Len(hdr)}
            data == NodeOf(n).data
        IN  /\ b.last - b.first + 1 >= 2
            /\ \A k \in b.first..b.last : HasPipe(lines[k])
            /\ b.last = Len(lines) \/ ~HasPipe(lines[b.last + 1])
            /\ NodeOf(n).type = "Table"
            /\ data[1] = hdr
            /\ Len(data) - 1 = Cardinality(good)
            /\ \A r \in 1..Cardinality(good) :
                   data[r + 1] = row_cells(lines[NthOf(good, r)])

\* the table example is parsed to two columns and the one data row ["1","2"];
\* the separator (two cells, like the header) and '| x |' are not rows
C1_Witness ==
    /\ Parsed
    /\ lines = TableExample
    /\ \E n \in TableBlocks :
           /\ trace[n].first = 1
           /\ trace[n].last = 4
           /\ Len(row_cells(lines[2])) = 2
           /\ NodeOf(n).data = << << <<"A">>, <<"B">> >>, << <<"1">>, <<"2">> >> >>

\* C2: when the table branch is taken on a run of fewer than two lines, or
\* on a run whose first line yields no header cell, the index moves past the
\* run and nothing is appended to flowables.
C2_NoTableForShortRunOrEmptyHeader ==
    [][(/\ InLoop
        /\ line # <<>>
        /\ ~title_match(line).ok
        /\ HasPipe(line)
        /\ \/ table_run_end(lines, i) - i < 2
           \/ row_cells(lines[i + 1]) = <<>>)
       => (i' = table_run_end(lines, i) /\ flowables' = flowables)]_vars

IsListLine(k) == list_match(strip(lines[k])).ok

\* the maximal runs of consecutive lines that match the list-line pattern
MaximalListRuns ==
    {r \in (1..Len(lines)) \X (1..Len(lines)) :
        /\ r[1] <= r[2]
        /\ \A k \in r[1]..r[2] : IsListLine(k)
        /\ r[1] = 1 \/ ~IsListLine(r[1] - 1)
        /\ r[2] = Len(lines) \/ ~IsListLine(r[2] + 1)}

\* one list block for lines a..b: an item per line, numbered exactly when
\* the first line's marker starts with a digit, and no other list block
\* holds a line of a..b
ListRunEmitted(a, b) ==
    \E n \in ListBlocks :
        /\ trace[n].first = a
        /\ trace[n].last = b
        /\ NodeOf(n).type = "ListFlowable"
        /\ Len(NodeOf(n).items) = b - a + 1
        /\ NodeOf(n).bulletType =
               (IF strip(lines[a])[1] \in Digits THEN "1" ELSE "bullet")
        /\ (NodeOf(n).start = "1") = (strip(lines[a])[1] \in Digits)
        /\ \A m \in ListBlocks :
               (trace[m].first <= b /\ trace[m].last >= a) => m = n

\* C3 as stated: every maximal run of list lines gives exactly one list
\* block, typed by its first line, with one item per line of the run.
C3_EveryListRunOneBlock ==
    Parsed => \A r \in MaximalListRuns : ListRunEmitted(r[1], r[2])

\* C3 amended: every maximal run of list lines whose first line contains no
\* '|' gives exactly one list block, typed by the first line's marker only,
\* with one item per line of the run.
C3_ListRunWithoutPipeOneBlock ==
    Parsed => \A r \in MaximalListRuns :
                  ~HasPipe(lines[r[1]]) => ListRunEmitted(r[1], r[2])

\* a run that starts with a bullet and goes on with a number is one bullet list
C3_Witness ==
    /\ Parsed
    /\ \E r \in MaximalListRuns :
           /\ r[2] > r[1]
           /\ ~HasPipe(lines[r[1]])
           /\ strip(lines[r[1]])[1] = "-"
           /\ strip(lines[r[2]])[1] \in Digits
           /\ ListRunEmitted(r[1], r[2])

\* the number of '#' a string starts with
LeadingHashes(s) == Cardinality({k \in 1..Len(s) : \A j \in 1..k : s[j] = "#"})

\* 1 to 6 leading '#', then white space (the trimmed line then has text)
IsHeadingLine(s) ==
    /\ LeadingHashes(s) \in 1..6
    /\ Len(s) > LeadingHashes(s)
    /\ IsSpace(s[LeadingHashes(s) + 1])

HeadingEmitted(k) ==
    \E n \in TitleBlocks :
        /\ trace[n].first = k
        /\ trace[n].last = k
        /\ trace[n].level = LeadingHashes(strip(lines[k]))
        /\ NodeOf(n).type = "Paragraph"
        /\ NodeOf(n).style =
               (IF trace[n].level = 1 THEN "TitleStyle" ELSE "SubtitleStyle")

ParagraphEmitted(k) ==
    \E n \in 1..Len(trace) :
        /\ trace[n].kind = "paragraph"
        /\ trace[n].first = k
        /\ trace[n].last = k
        /\ NodeOf(n).style = "Normal"

NoHeadingAt(k) == \A n \in TitleBlocks : trace[n].first # k

claimed_cells(ln) ==
    LET fs == split(ln, "|")
        a == IF strip(fs[1]) = <<>> THEN 2 ELSE 1
        b == IF strip(fs[Len(fs)]) = <<>> THEN Len(fs) - 1 ELSE Len(fs)
    IN  [k \in 1..(b - a + 1) |-> strip(fs[a + k - 1])]

\* C5: the header of every table is its first line split on '|', without
\* the empty outer fields only, each cell trimmed: a non-empty first or last
\* field is kept.
C5_OuterFieldsKept ==
    \A n \in TableBlocks :
        NodeOf(n).data[1] = claimed_cells(lines[trace[n].first])

\* the positions of text that lie inside some match, markers included
InsideMatch(p) ==
    \E n \in 1..Len(matches) : matches[n].start <= p /\ p <= matches[n].close + 1

BoldItalicExpected ==
    <<"<", "b", ">", "h", "i", "<", "/", "b", ">", " ", "a", "n", "d", " ",
      "<", "i", ">", "t", "h", "e", "r", "e", "<", "/", "i", ">">>

\* '<b>hi</b> and *there*'
BoldOnlyExpected ==
    <<"<", "b", ">", "h", "i", "<", "/", "b", ">", " ", "a", "n", "d", " ",
      "*", "t", "h", "e", "r", "e", "*">>

Count(c, s) == Cardinality({k \in 1..Len(s) : s[k] = c})

MatchesOf(c) == {n \in 1..Len(matches) : text[matches[n].start] = c}

HasItalicTag(s) ==
    \E k \in 1..(Len(s) - 2) : SubSeq(s, k, k + 2) = <<"<", "i", ">">>

\* C7 as stated: '**hi** and *there*' ends as '<b>hi</b> and <i>there</i>',
\* and every single-marker pair left after the bold step becomes <i>..</i>.
C7_BoldThenItalic ==
    ipc # "start" =>
        /\ text = BoldItalicExample => result = BoldItalicExpected
        /\ result = italic_sub(re_sub(text, 1), 1)

\* C7 amended: the bold step is the whole transform: '**hi** and *there*'
\* ends as '<b>hi</b> and *there*'; no <i> is ever written, and every marker
\* character outside the replaced bold markers is still there.
C7_BoldOnly ==
    ipc # "start" =>
        /\ text = BoldItalicExample => result = BoldOnlyExpected
        /\ ~HasItalicTag(result)
        /\ \A c \in BoldMarkers :
               Count(c, result) = Count(c, text) - 4 * Cardinality(MatchesOf(c))

C7_Witness ==
    /\ ipc = "once"
    /\ text = BoldItalicExample
    /\ Len(matches) = 1
    /\ result = BoldOnlyExpected

\* no '**' or '__' with the same marker again later
NoBoldPair(s) ==
    ~\E c \in BoldMarkers, p \in 1..Len(s), q \in 1..Len(s) :
         q >= p + 2 /\ IsMarkerAt(s, p, c) /\ IsMarkerAt(s, q, c)

\* C8: a text without a matched pair of markers (none at all, or unmatched
\* ones such as 'this *is not closed') is returned as it is, and applying
\* the transform to the result returns it again.
C8_UnmatchedUnchanged ==
    /\ (ipc # "start" /\ NoBoldPair(text)) => result = text
    /\ (ipc = "twice" /\ NoBoldPair(text)) => (result2 = result /\ result2 = text)

C8_Witness ==
    /\ ipc = "twice"
    /\ text = UnclosedExample
    /\ NoBoldPair(text)
    /\ result = text
    /\ result2 = text

\* C9: with no input file, convert_to_pdf ends with an error message
\* printed, no exception left unhandled, and no output file.
C9_MissingInputReported ==
    (~input_exists /\ pc \notin {"open", "idle"}) =>
        /\ exception = "none"
        /\ stdout # <<>>
        /\ ~output_exists

\* the blocks emitted so far come from disjoint groups of lines, in source
\* order, all before the index; the index never passes the end and is at the
\* end when the loop is left
C10_StateOk ==
    /\ pc = "loop" => i <= Len(lines)
    /\ Parsed => i = Len(lines)
    /\ Len(flowables) = 2 * Len(trace)
    /\ \A n \in 1..Len(trace) :
           /\ 1 <= trace[n].first
           /\ trace[n].first <= trace[n].last
           /\ trace[n].last <= i
           /\ n > 1 => trace[n - 1].last < trace[n].first

\* C10: parse_markdown is one pass: in every state the emitted blocks come
\* from disjoint groups of lines in source order and the index is within the
\* lines, at their end once the loop is left; every iteration of the main
\* loop moves the index forward by at least one line (so the loop is left
\* after at most len(lines) iterations) and leaves the blocks already emitted
\* as they are.
C10_OnePass ==
    /\ []C10_StateOk
    /\ [][pc = "loop" =>
            /\ i' >= i
            /\ pc' = "loop" => i' > i
            /\ SubSeq(flowables', 1, Len(flowables)) = flowables
            /\ SubSeq(trace', 1, Len(trace)) = trace]_vars

\* three lines parsed to the end: a two-line list, then a paragraph
C10_Witness ==
    /\ Parsed
    /\ Len(lines) = 3
    /\ i = 3
    /\ Len(trace) = 2
    /\ trace[1].kind = "list"
    /\ trace[1].last = 2
    /\ trace[2].kind = "paragraph"
    /\ trace[2].first = 3

====
